---------------------------- MODULE Spec2Model ----------------------------
(***************************************************************************)
(* Two programs of the repository are modelled.                            *)
(*                                                                         *)
(*  - kiss_matcher::KISSMatcher (KISSMatcher.cpp), the pipeline facade:    *)
(*    construction, match, estimate and the accessors.  The descriptor     *)
(*    extractor, the ROBIN matcher and the registration solver are not     *)
(*    part of the source files at hand; what the facade needs of them is   *)
(*    taken from the specification and marked so.                          *)
(*                                                                         *)
(*  - teaser::Matcher (examples/src/matcher.cc): calculateCorrespondences  *)
(*    with advancedMatching and optimizedMatching, the parallel            *)
(*    cross-check of the latter at the grain of its reads and writes of    *)
(*    shared memory, and the tuple test one trial at a time.               *)
(*                                                                         *)
(* Abstractions: a descriptor is an integer and a point is a rational on   *)
(* a line, so that distances are exact; floating-point rounding is not     *)
(* modelled.  The nearest neighbour of a query is the exact one, the       *)
(* lowest index winning a tie.  Indices are 0-based as in the code.        *)
(***************************************************************************)
EXTENDS Integers, Sequences, FiniteSets, TLC

(***************************************************************************)
(* Bounds of the model.                                                    *)
(***************************************************************************)
MaxIn == 3        \* points of an input cloud of the facade
MaxDur == 1       \* a measured duration is 1..MaxDur
MaxOps == 3       \* calls made on one KISSMatcher
MaxPts == 3       \* points of a cloud given to a Matcher used once
MaxFeat == 2      \* a descriptor is 0..MaxFeat
MaxFeatSum == 4  \* length plus largest descriptor of a descriptor list
MaxCoord == 2     \* a coordinate is 0..MaxCoord
MaxTrials == 2    \* tuple trials followed (the code makes 100 * ncorr)
MaxWorkers == 2   \* tasks the parallel_reduce range is split into
MaxCalls == 2     \* calls made on one Matcher that is used again
MaxPtsReuse == 2  \* points of a cloud given to a Matcher that is used again
MaxFeatReuse == 1 \* a descriptor given to it is 0..MaxFeatReuse
MaxCols == 2      \* columns of a matrix given to the matrix overload of match
MaxVal == 1       \* an entry of such a matrix is 0..MaxVal

VARIABLES
  \* ---- kiss_matcher::KISSMatcher
  faster_pfh_,      \* Null or Ptr("FasterPFH")
  robin_matching_,  \* Null or Ptr(the matcher's counters)
  solver_,          \* Null or Ptr(the solver's state)
  keypoints_,       \* <<|src_keypoints_|, |tgt_keypoints_|>>
  matched_,         \* |src_matched_| = |tgt_matched_|
  times_,           \* processing_time_, extraction_time_, matching_time_
  solver_time_,
  last,             \* the last call: operation, outcome, returned solution
  ops,              \* calls made so far
  eig,              \* the last call of the matrix overload of match: the
                    \* matrices and the vectors it made of them
  \* ---- teaser::Matcher
  pointcloud_,      \* the stored clouds, two more with every call
  features_,        \* the stored descriptor lists, two more with every call
  corres_,          \* the correspondence list
  \* ---- the running call of Matcher::calculateCorrespondences
  pc,               \* "idle", "build_empty", "cross", "opt_tuple",
                    \* "adv_tuple" or "crashed"
  args,             \* the arguments of the current (or last) call
  fr,               \* the locals of advancedMatching / optimizedMatching
  wk,               \* the tasks of tbb::parallel_reduce
  ret,              \* what the last completed call returned
  \* ---- history, read by the claims only
  obs,              \* the output of the cross-check stage of this call, and
                    \* whether a correspondence given out twice was dropped
  calls,            \* calls started on this Matcher
  prev              \* an earlier run with the same arguments: its obs and ret

fvars == <<faster_pfh_, robin_matching_, solver_, keypoints_, matched_,
           times_, solver_time_, last, ops, eig>>

mvars == <<pointcloud_, features_, corres_, pc, args, fr, wk, ret, obs, calls,
           prev>>

vars == <<fvars, mvars>>

\* A std::unique_ptr: empty, or owning one object.
Null == <<>>
Ptr(x) == <<x>>
Deref(p) == p[1]

Min(a, b) == IF a < b THEN a ELSE b
Max(a, b) == IF a > b THEN a ELSE b

(***************************************************************************)
(* The registration solver, from the specification (4.4): a solver that    *)
(* has not solved holds the invalid identity solution and no inliers; a    *)
(* solve leaves the inlier sets and a solution that is valid iff both      *)
(* inlier sets have at least 3 elements, and is the identity otherwise.    *)
(***************************************************************************)
MinInliers == 3

InvalidIdentity == [valid |-> FALSE, ident |-> TRUE]

NewSolver == [rot |-> 0, trans |-> 0, sol |-> InvalidIdentity]

SolveOutcomes(M) ==
  { [rot |-> r, trans |-> t,
     sol |-> [valid |-> (r >= MinInliers /\ t >= MinInliers), ident |-> id]] :
       <<r, t, id>> \in { x \in (0..M) \X (0..M) \X BOOLEAN :
          /\ x[2] <= x[1]
          /\ (~(x[1] >= MinInliers /\ x[2] >= MinInliers) => x[3]) } }

(***************************************************************************)
(* KISSMatcher::resetSolver: a new solver replaces whatever solver_ held.  *)
(***************************************************************************)
resetSolverKeep(old) == IF old = Null THEN Ptr(NewSolver) ELSE old

resetSolver(old) == Ptr(NewSolver)

(***************************************************************************)
(* ROBINMatching as the facade sees it, from the specification (4.2, 4.3): *)
(* establishCorrespondences leaves the counts of initial and of pruned     *)
(* pairs and its rejection time, and returns the pruned pairs.             *)
(***************************************************************************)
NewRobin == [initial |-> 0, pruned |-> 0, rejection |-> 0]

ZeroTimes == [processing |-> 0, extraction |-> 0, matching |-> 0]

NoCall == [op |-> "none", crashed |-> FALSE, solved |-> FALSE,
           ret |-> <<>>, after_valid |-> FALSE]

(***************************************************************************)
(* The two constructors.  KISSMatcher(voxel_size) only sets config_;       *)
(* KISSMatcher(config) also calls reset(), which makes the three           *)
(* components.  The members that neither constructor sets start at zero    *)
(* (specification, 4.5).                                                   *)
(***************************************************************************)
ConstructVoxel ==
  /\ faster_pfh_ = Null
  /\ robin_matching_ = Null
  /\ solver_ = Null

ConstructConfig ==
  /\ faster_pfh_ = Ptr("FasterPFH")
  /\ robin_matching_ = Ptr(NewRobin)
  /\ solver_ = resetSolver(Null)

FacadeFields ==
  /\ keypoints_ = <<0, 0>>
  /\ matched_ = 0
  /\ times_ = ZeroTimes
  /\ solver_time_ = 0
  /\ last = NoCall
  /\ ops = 0
  /\ eig = <<>>

InitFacade == (ConstructVoxel \/ ConstructConfig) /\ FacadeFields

Crashed == last.crashed

\* Whether a valid solution has been returned by the call that just ended or
\* by one before it (history, for the claims; the program does not read it).
ValidSeen == last.after_valid \/ (last.ret # <<>> /\ Deref(last.ret).valid)

(***************************************************************************)
(* clear(), from the specification (3, Lifecycle): the intermediate arrays *)
(* are emptied at the start of each match; nothing else is touched.        *)
(***************************************************************************)
clear ==
  /\ keypoints_' = <<0, 0>>
  /\ matched_' = 0

(***************************************************************************)
(* The outcomes of one match on a facade whose components exist: the       *)
(* extractor keeps kS and kT keypoints of the clouds it is given, the      *)
(* matcher finds n0 initial pairs and keeps M of them, and the three       *)
(* phases are timed.                                                       *)
(***************************************************************************)
MatchOutcomes ==
  { [kS |-> x[1], kT |-> x[2], n0 |-> x[3], M |-> x[4], d |-> x[5]] :
      x \in { y \in (0..MaxIn) \X (0..MaxIn) \X (0..MaxIn) \X (0..MaxIn)
                    \X (1..MaxDur) :
               /\ y[3] <= Min(y[1], y[2])
               /\ y[4] <= y[3] } }

(***************************************************************************)
(* KISSMatcher::match (vector overload) on a facade whose components       *)
(* exist: clear(), extraction, establishCorrespondences, the matched       *)
(* arrays resized to the number of pairs, the three timings.               *)
(***************************************************************************)
MatchReturns(o) ==
  /\ faster_pfh_ # Null
  /\ robin_matching_ # Null
  /\ keypoints_' = <<o.kS, o.kT>>
  /\ robin_matching_' =
       Ptr([initial |-> o.n0, pruned |-> o.M, rejection |-> o.d])
  /\ matched_' = o.M
  /\ times_' = [processing |-> o.d, extraction |-> o.d, matching |-> o.d]
  /\ UNCHANGED faster_pfh_

\* faster_pfh_ is dereferenced without a check, after clear(): on a null
\* pointer the call does not return.
MatchCrashes ==
  /\ faster_pfh_ = Null
  /\ clear
  /\ UNCHANGED <<faster_pfh_, robin_matching_, times_>>

Match ==
  /\ ~Crashed
  /\ ops < MaxOps
  /\ ops' = ops + 1
  /\ \/ /\ MatchCrashes
        /\ last' = [op |-> "match", crashed |-> TRUE, solved |-> FALSE,
                    ret |-> <<>>, after_valid |-> ValidSeen]
     \/ /\ \E o \in MatchOutcomes : MatchReturns(o)
        /\ last' = [op |-> "match", crashed |-> FALSE, solved |-> FALSE,
                    ret |-> <<>>, after_valid |-> ValidSeen]
  /\ UNCHANGED <<solver_, solver_time_, eig, mvars>>

(***************************************************************************)
(* KISSMatcher::estimate: resetSolver, match, then either the early return *)
(* of the solver's solution (M < 2) or solve and the solver time.          *)
(***************************************************************************)
Estimate ==
  /\ ~Crashed
  /\ ops < MaxOps
  /\ ops' = ops + 1
  /\ UNCHANGED <<eig, mvars>>
  /\ \/ /\ MatchCrashes
        /\ solver_' = resetSolver(solver_)
        /\ last' = [op |-> "estimate", crashed |-> TRUE, solved |-> FALSE,
                    ret |-> <<>>, after_valid |-> ValidSeen]
        /\ UNCHANGED solver_time_
     \/ \E o \in MatchOutcomes :
          /\ MatchReturns(o)
          /\ IF o.M < 2
               THEN /\ solver_' = resetSolver(solver_)
                    /\ last' = [op |-> "estimate", crashed |-> FALSE,
                                solved |-> FALSE,
                                ret |-> <<Deref(solver_').sol>>,
                                after_valid |-> ValidSeen]
                    /\ UNCHANGED solver_time_
               ELSE /\ resetSolver(solver_) # Null
                    /\ \E s \in SolveOutcomes(o.M) : solver_' = Ptr(s)
                    /\ \E d \in 1..MaxDur : solver_time_' = d
                    /\ last' = [op |-> "estimate", crashed |-> FALSE,
                                solved |-> TRUE,
                                ret |-> <<Deref(solver_').sol>>,
                                after_valid |-> ValidSeen]

NextFacade == Match \/ Estimate

(***************************************************************************)
(* KISSMatcher::match, the overload taking two 3xN matrices of double: two *)
(* vectors of src.cols() and tgt.cols() points are made, one loop over     *)
(* i < src.cols() casts column i of both matrices to float, and the vector *)
(* overload is called.  A matrix is the sequence of its columns, a column  *)
(* one number; a double is counted in halves of the float spacing, and the *)
(* cast rounds to the nearest float, halves upwards.                       *)
(***************************************************************************)
CastFloat(x) == 2 * ((x + 1) \div 2)

CastColumns(m) == [k \in 1..Len(m) |-> CastFloat(m[k])]

Matrices == UNION { [1..n -> 0..MaxVal] : n \in 0..MaxCols }

Floats == { CastFloat(x) : x \in 0..MaxVal }

\* What the loop leaves.  With fewer target columns than source columns it
\* reads tgt.col(i) and writes tgt_voxelized_vec[i] past the end, which is
\* undefined: the call stops there or goes on.  With more target columns
\* the elements from src.cols() on are never assigned and keep the
\* indeterminate value of a default-constructed Eigen::Vector3f.
ConvertColumns(src, tgt) ==
  IF Len(src) > Len(tgt)
    THEN { [src_vec |-> CastColumns(src), tgt_vec |-> CastColumns(tgt),
            outside |-> TRUE, stopped |-> b] : b \in BOOLEAN }
    ELSE { [src_vec |-> CastColumns(src),
            tgt_vec |-> [k \in 1..Len(tgt) |->
                          IF k <= Len(src) THEN CastFloat(tgt[k])
                                           ELSE g[k - Len(src)]],
            outside |-> FALSE, stopped |-> FALSE] :
              g \in [1..(Len(tgt) - Len(src)) -> Floats] }

MatchEigen ==
  /\ ~Crashed
  /\ ops < MaxOps
  /\ ops' = ops + 1
  /\ \E src, tgt \in Matrices :
       \E cv \in ConvertColumns(src, tgt) :
         /\ eig' = [src |-> src, tgt |-> tgt, src_vec |-> cv.src_vec,
                    tgt_vec |-> cv.tgt_vec, outside |-> cv.outside]
         /\ \/ /\ cv.stopped
               /\ last' = [op |-> "match", crashed |-> TRUE, solved |-> FALSE,
                           ret |-> <<>>, after_valid |-> ValidSeen]
               /\ UNCHANGED <<faster_pfh_, robin_matching_, keypoints_,
                              matched_, times_>>
            \/ /\ ~cv.stopped
               /\ MatchCrashes
               /\ last' = [op |-> "match", crashed |-> TRUE, solved |-> FALSE,
                           ret |-> <<>>, after_valid |-> ValidSeen]
            \/ /\ ~cv.stopped
               /\ \E o \in MatchOutcomes :
                    /\ o.kS <= Len(cv.src_vec)
                    /\ o.kT <= Len(cv.tgt_vec)
                    /\ MatchReturns(o)
               /\ last' = [op |-> "match", crashed |-> FALSE, solved |-> FALSE,
                           ret |-> <<>>, after_valid |-> ValidSeen]
  /\ UNCHANGED <<solver_, solver_time_, mvars>>

(***************************************************************************)
(*                          teaser::Matcher                                *)
(***************************************************************************)

\* 0-based access to a std::vector.
At(s, k) == s[k + 1]
Idx(s) == 0 .. (Len(s) - 1)
SetAt(s, k, v) == [s EXCEPT ![k + 1] = v]

Abs(x) == IF x < 0 THEN -x ELSE x

RECURSIVE SumSeq(_)
SumSeq(s) == IF s = <<>> THEN 0 ELSE Head(s) + SumSeq(Tail(s))

RECURSIVE MaxAbs(_)
MaxAbs(s) == IF s = <<>> THEN 0 ELSE Max(Abs(Head(s)), MaxAbs(Tail(s)))

RECURSIVE Gcd(_, _)
Gcd(a, b) == IF b = 0 THEN a ELSE Gcd(b, a % b)

RECURSIVE Concat(_)
Concat(ss) == IF ss = <<>> THEN <<>> ELSE Head(ss) \o Concat(Tail(ss))

(***************************************************************************)
(* A stored cloud: the point k is the rational x[k] / den; den = 0 stands  *)
(* for coordinates that are NaN (0 / 0 in normalizePoints).  A cloud is    *)
(* kept in lowest terms.                                                   *)
(***************************************************************************)
Cloud(xs) == [x |-> xs, den |-> 1]

NaNCloud(c) == [x |-> [k \in 1..Len(c.x) |-> 0], den |-> 0]

RECURSIVE GcdAll(_, _)
GcdAll(g, s) == IF s = <<>> THEN g ELSE GcdAll(Gcd(g, Abs(Head(s))), Tail(s))

Reduce(c) ==
  IF c.den = 0 THEN NaNCloud(c)
  ELSE LET h == GcdAll(c.den, c.x)
       IN [x |-> [k \in 1..Len(c.x) |-> c.x[k] \div h], den |-> c.den \div h]

(***************************************************************************)
(* Matcher::normalizePoints on the first two stored clouds: each is        *)
(* centred on its mean; unless use_absolute_scale, both are divided by the *)
(* largest distance of a point from its mean (global_scale_) when that is  *)
(* not 1.                                                                  *)
(***************************************************************************)
Centre(c) ==
  IF c.den = 0 \/ c.x = <<>> THEN c
  ELSE LET n == Len(c.x)
           s == SumSeq(c.x)
       IN Reduce([x |-> [k \in 1..n |-> c.x[k] * n - s], den |-> c.den * n])

\* max_scale of a centred cloud, as <<numerator, denominator>>; a NaN norm
\* never exceeds the running maximum.
MaxScale(c) == IF c.den = 0 THEN <<0, 1>> ELSE <<MaxAbs(c.x), c.den>>

RatMax(a, b) == IF a[1] * b[2] > b[1] * a[2] THEN a ELSE b

DivideBy(c, g) ==
  IF c.den = 0 THEN c
  ELSE IF g[1] = 0 THEN NaNCloud(c)
  ELSE Reduce([x |-> [k \in 1..Len(c.x) |-> c.x[k] * g[2]],
               den |-> c.den * g[1]])

normalizePoints(pcs, use_absolute_scale) ==
  LET c0 == Centre(pcs[1])
      c1 == Centre(pcs[2])
      scale == RatMax(RatMax(<<0, 1>>, MaxScale(c0)), MaxScale(c1))
      global_scale_ == IF use_absolute_scale THEN <<1, 1>> ELSE scale
  IN IF global_scale_[1] # global_scale_[2]
       THEN [pcs EXCEPT ![1] = DivideBy(c0, global_scale_),
                        ![2] = DivideBy(c1, global_scale_)]
       ELSE [pcs EXCEPT ![1] = c0, ![2] = c1]

(***************************************************************************)
(* The nearest-neighbour index (FLANN, used as a black box): knnSearch     *)
(* with nn = 1 gives the index of the exact nearest descriptor and the     *)
(* squared distance to it.                                                 *)
(***************************************************************************)
Dist2(a, b) == (a - b) * (a - b)

Nearest(data, q) ==
  CHOOSE i \in Idx(data) :
    \A k \in Idx(data) :
       \/ Dist2(At(data, i), q) < Dist2(At(data, k), q)
       \/ (Dist2(At(data, i), q) = Dist2(At(data, k), q) /\ i <= k)

\* searchKDTree(tree over data, input, indices, dists, 1): indices[0].
searchKDTree(data, input) == Nearest(data, input)

\* searchKDTreeAll(tree over data, inputs, indices, dists, 1).
searchKDTreeAll(data, inputs) ==
  [indices |-> [k \in 1..Len(inputs) |-> Nearest(data, inputs[k])],
   dists |-> [k \in 1..Len(inputs) |->
                Dist2(At(data, Nearest(data, inputs[k])), inputs[k])]]

(***************************************************************************)
(* std::sort and std::unique on a vector of pairs.                         *)
(***************************************************************************)
PairLess(a, b) == a[1] < b[1] \/ (a[1] = b[1] /\ a[2] < b[2])

RECURSIVE InsertPair(_, _)
InsertPair(p, s) ==
  IF s = <<>> THEN <<p>>
  ELSE IF PairLess(Head(s), p) THEN <<Head(s)>> \o InsertPair(p, Tail(s))
  ELSE <<p>> \o s

RECURSIVE SortPairs(_)
SortPairs(s) == IF s = <<>> THEN <<>> ELSE InsertPair(Head(s), SortPairs(Tail(s)))

RECURSIVE Unique(_)
Unique(s) ==
  IF Len(s) < 2 THEN s
  ELSE IF s[1] = s[2] THEN Unique(Tail(s))
  ELSE <<s[1]>> \o Unique(Tail(s))

SwapPairs(s) == [k \in 1..Len(s) |-> <<s[k][2], s[k][1]>>]

(***************************************************************************)
(* The members thr_dist_ and num_max_corres_ of the Matcher (passed to     *)
(* optimizedMatching at matcher.cc:60), with values at which both sides of *)
(* the tests on them occur; the number of tuple trials per correspondence. *)
(***************************************************************************)
thr_dist_ == 1
num_max_corres_ == 2
TrialsPerCorr == 100

(***************************************************************************)
(* Lengths of the tuple test.  A length is <<numerator, denominator>>; a   *)
(* denominator 0 is NaN, which fails every comparison.                     *)
(***************************************************************************)
PairLen(c, a, b) == <<Abs(At(c.x, a) - At(c.x, b)), c.den>>

\* li * scale < lj
ScaledLess(li, sc, lj) ==
  li[2] # 0 /\ lj[2] # 0 /\ li[1] * sc[1] * lj[2] < lj[1] * sc[2] * li[2]

\* lj < li / scale
LessDivided(lj, li, sc) ==
  li[2] # 0 /\ lj[2] # 0 /\ lj[1] * sc[1] * li[2] < li[1] * sc[2] * lj[2]

\* li * scale > lj
ScaledGreater(li, sc, lj) ==
  li[2] # 0 /\ lj[2] # 0 /\ li[1] * sc[1] * lj[2] > lj[1] * sc[2] * li[2]

\* lj > li / scale
GreaterDivided(lj, li, sc) ==
  li[2] # 0 /\ lj[2] # 0 /\ lj[1] * sc[1] * li[2] > li[1] * sc[2] * lj[2]

\* (li * scale < lj) && (lj < li / scale)
StrictTest(li, lj, sc) == ScaledLess(li, sc, lj) /\ LessDivided(lj, li, sc)

\* !((li * scale > lj) || (lj > li / scale))
FirstTestOptimized(li, lj, sc) ==
  ~(ScaledGreater(li, sc, lj) \/ GreaterDivided(lj, li, sc))

(***************************************************************************)
(* The roles of the two stored clouds: fi is the larger one.               *)
(***************************************************************************)
Roles(pcs) ==
  IF Len(At(pcs, 1).x) > Len(At(pcs, 0).x)
    THEN [fi |-> 1, fj |-> 0, swapped |-> TRUE]
    ELSE [fi |-> 0, fj |-> 1, swapped |-> FALSE]

(***************************************************************************)
(* advancedMatching, initial matching and cross check (sequential).        *)
(***************************************************************************)
RECURSIVE InitialMatching(_, _, _, _, _)
InitialMatching(fiData, fjData, j, i_to_j, corres_ji) ==
  IF j = Len(fjData) THEN [i_to_j |-> i_to_j, corres_ji |-> corres_ji]
  ELSE LET i == searchKDTree(fiData, At(fjData, j))
           upd == IF At(i_to_j, i) = -1
                    THEN SetAt(i_to_j, i, searchKDTree(fjData, At(fiData, i)))
                    ELSE i_to_j
       IN InitialMatching(fiData, fjData, j + 1, upd,
                          Append(corres_ji, <<i, j>>))

CorresIJ(i_to_j) ==
  LET ix == SelectSeq([k \in 1..Len(i_to_j) |-> k - 1],
                      LAMBDA i : At(i_to_j, i) # -1)
  IN [k \in 1..Len(ix) |-> <<ix[k], At(i_to_j, ix[k])>>]

CrossCheck(corres_ij, corres_ji, nPti, nPtj) ==
  LET Mi == [i \in 1..nPti |->
               LET e == SelectSeq(corres_ij, LAMBDA c : c[1] = i - 1)
               IN [k \in 1..Len(e) |-> e[k][2]]]
      Mj == [j \in 1..nPtj |->
               LET e == SelectSeq(corres_ji, LAMBDA c : c[2] = j - 1)
               IN [k \in 1..Len(e) |-> e[k][1]]]
  IN Concat([i \in 1..nPti |->
       Concat([ii \in 1..Len(Mi[i]) |->
         LET j == Mi[i][ii]
             hit == SelectSeq(Mj[j + 1], LAMBDA c : c = i - 1)
         IN [jj \in 1..Len(hit) |-> <<i - 1, j>>]])])

AdvancedCorres(fiData, fjData, use_crosscheck) ==
  LET m == InitialMatching(fiData, fjData, 0,
                           [k \in 1..Len(fiData) |-> -1], <<>>)
      corres_ij == CorresIJ(m.i_to_j)
  IN IF use_crosscheck
       THEN CrossCheck(corres_ij, m.corres_ji, Len(fiData), Len(fjData))
       ELSE corres_ij \o m.corres_ji

(***************************************************************************)
(* The ranges tbb::parallel_reduce hands to its tasks: [0, n) cut into at  *)
(* most MaxWorkers consecutive non-empty ranges.                           *)
(***************************************************************************)
RECURSIVE SortedSeq(_)
SortedSeq(S) ==
  IF S = {} THEN <<>>
  ELSE LET m == CHOOSE x \in S : \A y \in S : x <= y
       IN <<m>> \o SortedSeq(S \ {m})

Ranges(n) ==
  { LET b == SortedSeq({0, n} \cup C)
    IN [k \in 1..(Len(b) - 1) |-> <<b[k], b[k + 1]>>] :
      C \in { D \in SUBSET (1..(n - 1)) : Cardinality(D) < MaxWorkers } }

NewTask(r) == [lo |-> r[1], hi |-> r[2], j |-> r[1], ph |-> "test",
               local_corres |-> <<>>]

(***************************************************************************)
(* Matcher::calculateCorrespondences up to the point where the matcher it  *)
(* selects first waits for a random draw or for its tasks.  opcs, ofts are *)
(* the stored clouds and descriptor lists the call finds.                  *)
(***************************************************************************)
optimizedMatchingBegin(pcs, fts) ==
  LET r == Roles(pcs)
      s == searchKDTreeAll(At(fts, r.fi), At(fts, r.fj))
  IN /\ fr' = [fi |-> r.fi, fj |-> r.fj, swapped |-> r.swapped,
               corres_K |-> s.indices, dis |-> s.dists,
               i_to_j |-> [k \in 1..Len(At(pcs, r.fi).x) |-> -1],
               corres_K_for_i |-> 0,
               corres |-> <<>>, ncorr |-> 0, i |-> 0, tuple_on |-> FALSE,
               included |-> <<>>, corres_tuple |-> <<>>, broke |-> FALSE]
     /\ \E rs \in Ranges(Len(s.indices)) :
          wk' = [w \in 1..Len(rs) |-> NewTask(rs[w])]
     /\ pc' = "cross"
     /\ obs' = <<>>

advancedMatchingBegin(pcs, fts, in) ==
  LET r == Roles(pcs)
      corres == AdvancedCorres(At(fts, r.fi), At(fts, r.fj), in.cc)
  IN /\ fr' = [fi |-> r.fi, fj |-> r.fj, swapped |-> r.swapped,
               corres_K |-> <<>>, dis |-> <<>>, i_to_j |-> <<>>,
               corres_K_for_i |-> 0,
               corres |-> corres, ncorr |-> Len(corres), i |-> 0,
               tuple_on |-> (in.tt /\ in.scale[1] # 0),
               included |-> <<>>, corres_tuple |-> <<>>, broke |-> FALSE]
     /\ wk' = <<>>
     /\ pc' = "adv_tuple"
     /\ obs' = <<[cross |-> corres, swapped |-> r.swapped,
                  repeated |-> FALSE]>>

\* buildKDTree(data, tree) reads data[0].size(): whether data is empty.
buildKDTreeOnEmpty(pcs, fts) ==
  At(fts, Roles(pcs).fi) = <<>> \/ At(fts, Roles(pcs).fj) = <<>>

\* Both matchers start with buildKDTree on features_[fi] and features_[fj].
buildKDTreeBegin ==
  /\ fr' = <<>>
  /\ wk' = <<>>
  /\ pc' = "build_empty"
  /\ obs' = <<>>

CallOn(opcs, ofts, in) ==
  LET pcs0 == opcs \o <<Cloud(in.src), Cloud(in.tgt)>>
      pcs == IF in.opt THEN pcs0 ELSE normalizePoints(pcs0, in.abs)
      fts == ofts \o <<in.sf, in.tf>>
  IN /\ pc = "idle"
     /\ args' = in
     /\ pointcloud_' = pcs
     /\ features_' = fts
     /\ IF buildKDTreeOnEmpty(pcs, fts) THEN buildKDTreeBegin
        ELSE IF in.opt THEN optimizedMatchingBegin(pcs, fts)
                       ELSE advancedMatchingBegin(pcs, fts, in)

Call(in) ==
  /\ CallOn(pointcloud_, features_, in)
  /\ calls' = calls + 1
  /\ UNCHANGED <<corres_, ret, prev, fvars>>

\* A second run: a new Matcher is given the arguments of the run before.
Rerun ==
  /\ calls = 1
  /\ prev = <<>>
  /\ CallOn(<<>>, <<>>, args)
  /\ corres_' = <<>>
  /\ prev' = <<[obs |-> obs, ret |-> ret]>>
  /\ calls' = MaxCalls
  /\ UNCHANGED <<ret, fvars>>

Return ==
  /\ ret' = corres_'
  /\ pc' = "idle"
  /\ fr' = <<>>
  /\ wk' = <<>>

(***************************************************************************)
(* buildKDTree on an empty descriptor list: data[0] is read where there is *)
(* no element, which is undefined.  Either the call does not return, or    *)
(* the read yields some dimension and the matcher goes on with an index    *)
(* over no rows: the smaller cloud is the empty one, so no lookup is made, *)
(* no pair is found and no triple is tried.                                *)
(***************************************************************************)
BuildKDTreeEmpty ==
  /\ pc = "build_empty"
  /\ \/ /\ pc' = "crashed"
        /\ UNCHANGED <<corres_, fr, wk, ret, obs>>
     \/ /\ corres_' = IF args.opt /\ args.scale[1] = 0 THEN corres_ ELSE <<>>
        /\ obs' = <<[cross |-> <<>>, swapped |-> Roles(pointcloud_).swapped,
                     repeated |-> FALSE]>>
        /\ Return
  /\ UNCHANGED <<pointcloud_, features_, args, calls, prev, fvars>>

(***************************************************************************)
(* optimizedMatching, the body of parallel_reduce, one access to the       *)
(* shared i_to_j and corres_K_for_i at a time.  Task w is at index j.      *)
(***************************************************************************)
TaskI(w) == At(fr.corres_K, wk[w].j)

\* dis[j] > thr_dist * thr_dist, then the read of i_to_j[i]
TaskTest(w) ==
  /\ pc = "cross" /\ wk[w].ph = "test" /\ wk[w].j < wk[w].hi
  /\ IF \/ At(fr.dis, wk[w].j) > thr_dist_ * thr_dist_
        \/ At(fr.i_to_j, TaskI(w)) # -1
       THEN wk' = [wk EXCEPT ![w].j = @ + 1]
       ELSE wk' = [wk EXCEPT ![w].ph = "search"]
  /\ UNCHANGED <<pointcloud_, features_, corres_, pc, args, fr, ret, obs,
                 calls, prev, fvars>>

\* searchKDTree writes its result to corres_K_for_i[0]
TaskSearch(w) ==
  /\ pc = "cross" /\ wk[w].ph = "search"
  /\ fr' = [fr EXCEPT !.corres_K_for_i =
              searchKDTree(At(features_, fr.fj),
                           At(At(features_, fr.fi), TaskI(w)))]
  /\ wk' = [wk EXCEPT ![w].ph = "store"]
  /\ UNCHANGED <<pointcloud_, features_, corres_, pc, args, ret, obs, calls,
                 prev, fvars>>

\* i_to_j[i] = corres_K_for_i[0]
TaskStore(w) ==
  /\ pc = "cross" /\ wk[w].ph = "store"
  /\ fr' = [fr EXCEPT !.i_to_j = SetAt(@, TaskI(w), fr.corres_K_for_i)]
  /\ wk' = [wk EXCEPT ![w].ph = "compare"]
  /\ UNCHANGED <<pointcloud_, features_, corres_, pc, args, ret, obs, calls,
                 prev, fvars>>

\* if (corres_K_for_i[0] == j) local_corres.emplace_back(i, j)
TaskCompare(w) ==
  /\ pc = "cross" /\ wk[w].ph = "compare"
  /\ wk' = [wk EXCEPT
              ![w].local_corres =
                 IF fr.corres_K_for_i = wk[w].j
                   THEN Append(@, <<TaskI(w), wk[w].j>>) ELSE @,
              ![w].j = @ + 1,
              ![w].ph = "test"]
  /\ UNCHANGED <<pointcloud_, features_, corres_, pc, args, fr, ret, obs,
                 calls, prev, fvars>>

\* The reduction, then the start of the tuple test or, when tuple_scale is
\* 0, the end of optimizedMatching and the return of corres_.
Join ==
  /\ pc = "cross"
  /\ \A w \in 1..Len(wk) : wk[w].j = wk[w].hi
  /\ LET corres == Concat([w \in 1..Len(wk) |-> wk[w].local_corres])
     IN /\ obs' = <<[cross |-> corres, swapped |-> fr.swapped,
                     repeated |-> FALSE]>>
        /\ IF args.scale[1] # 0
             THEN /\ corres_' = <<>>
                  /\ fr' = [fr EXCEPT !.corres = corres,
                                      !.ncorr = Len(corres),
                                      !.tuple_on = TRUE,
                                      !.included =
                                         [k \in 1..Len(corres) |-> FALSE]]
                  /\ wk' = <<>>
                  /\ pc' = "opt_tuple"
                  /\ UNCHANGED ret
             ELSE /\ UNCHANGED corres_
                  /\ Return
  /\ UNCHANGED <<pointcloud_, features_, args, calls, prev, fvars>>

(***************************************************************************)
(* The tuple test of optimizedMatching, one trial of the loop.             *)
(***************************************************************************)
number_of_trial == fr.ncorr * TrialsPerCorr

TrialsLeft == fr.i < Min(number_of_trial, MaxTrials)

\* addUniqueCorrespondence, applied to a list of <<randIndex, id1, id2>>
RECURSIVE AddUnique(_, _)
AddUnique(st, adds) ==
  IF adds = <<>> THEN st
  ELSE LET a == Head(adds)
       IN IF At(st.included, a[1])
            THEN AddUnique(st, Tail(adds))
            ELSE AddUnique([corres_ |-> Append(st.corres_, <<a[2], a[3]>>),
                            included |-> SetAt(st.included, a[1], TRUE)],
                           Tail(adds))

Emit(r) ==
  LET c == At(fr.corres, r)
  IN IF fr.swapped THEN <<r, c[2], c[1]>> ELSE <<r, c[1], c[2]>>

\* The lengths of the pair of correspondences r, q in the two clouds.
Li(r, q) == PairLen(At(pointcloud_, fr.fi), At(fr.corres, r)[1],
                    At(fr.corres, q)[1])

Lj(r, q) == PairLen(At(pointcloud_, fr.fj), At(fr.corres, r)[2],
                    At(fr.corres, q)[2])

\* The test after rand0 and rand1: failing it continues with the next trial.
OptFirstPasses(rand0, rand1) ==
  FirstTestOptimized(Li(rand0, rand1), Lj(rand0, rand1), args.scale)

\* The test after rand2.
OptRestPasses(rand0, rand1, rand2) ==
  /\ StrictTest(Li(rand1, rand2), Lj(rand1, rand2), args.scale)
  /\ StrictTest(Li(rand2, rand0), Lj(rand2, rand0), args.scale)

OptAccepts(rand0, rand1, rand2) ==
  OptFirstPasses(rand0, rand1) /\ OptRestPasses(rand0, rand1, rand2)

OptTrial ==
  /\ pc = "opt_tuple" /\ ~fr.broke /\ TrialsLeft
  /\ \E rand0, rand1 \in 0..(fr.ncorr - 1) :
       IF ~OptFirstPasses(rand0, rand1)
         THEN /\ fr' = [fr EXCEPT !.i = @ + 1]
              /\ UNCHANGED <<corres_, obs>>
         ELSE \E rand2 \in 0..(fr.ncorr - 1) :
              LET st == IF OptRestPasses(rand0, rand1, rand2)
                          THEN AddUnique([corres_ |-> corres_,
                                          included |-> fr.included],
                                 <<Emit(rand0), Emit(rand1), Emit(rand2)>>)
                          ELSE [corres_ |-> corres_,
                                included |-> fr.included]
                  ok == OptRestPasses(rand0, rand1, rand2)
              IN /\ corres_' = st.corres_
                 /\ fr' = [fr EXCEPT
                             !.included = st.included,
                             !.i = @ + 1,
                             !.broke = Len(st.corres_) > num_max_corres_]
                 /\ obs' = <<[obs[1] EXCEPT !.repeated =
                               @ \/ (ok /\ Len(st.corres_) < Len(corres_) + 3)]>>
  /\ UNCHANGED <<pointcloud_, features_, pc, args, wk, ret, calls, prev,
                 fvars>>

OptReturn ==
  /\ pc = "opt_tuple" /\ (fr.broke \/ ~TrialsLeft)
  /\ UNCHANGED corres_
  /\ Return
  /\ UNCHANGED <<pointcloud_, features_, args, obs, calls, prev, fvars>>

(***************************************************************************)
(* The tuple test of advancedMatching, one trial of the loop; then the     *)
(* swap back, the copy to corres_ and the removal of duplicates.           *)
(***************************************************************************)
AdvAccepts(rand0, rand1, rand2) ==
  /\ StrictTest(Li(rand0, rand1), Lj(rand0, rand1), args.scale)
  /\ StrictTest(Li(rand1, rand2), Lj(rand1, rand2), args.scale)
  /\ StrictTest(Li(rand2, rand0), Lj(rand2, rand0), args.scale)

AdvTrial ==
  /\ pc = "adv_tuple" /\ fr.tuple_on /\ TrialsLeft
  /\ \E rand0, rand1, rand2 \in 0..(fr.ncorr - 1) :
       fr' = [fr EXCEPT
                !.i = @ + 1,
                !.corres_tuple =
                   IF AdvAccepts(rand0, rand1, rand2)
                     THEN @ \o <<At(fr.corres, rand0), At(fr.corres, rand1),
                                 At(fr.corres, rand2)>>
                     ELSE @]
  /\ UNCHANGED <<pointcloud_, features_, corres_, pc, args, wk, ret, obs,
                 calls, prev, fvars>>

\* std::sort alone, without std::unique and erase
SortOnly(c) == SortPairs(c)

EraseDuplicates(c) == Unique(SortPairs(c))

AdvReturn ==
  /\ pc = "adv_tuple" /\ (~fr.tuple_on \/ ~TrialsLeft)
  /\ LET corres == IF fr.tuple_on THEN fr.corres_tuple ELSE fr.corres
         oriented == IF fr.swapped THEN SwapPairs(corres) ELSE corres
     IN /\ corres_' = EraseDuplicates(oriented)
        /\ obs' = <<[obs[1] EXCEPT !.repeated =
                      Len(EraseDuplicates(oriented)) < Len(oriented)]>>
  /\ Return
  /\ UNCHANGED <<pointcloud_, features_, args, calls, prev, fvars>>

Steps ==
  \/ \E w \in 1..Len(wk) : TaskTest(w)
  \/ \E w \in 1..Len(wk) : TaskSearch(w)
  \/ \E w \in 1..Len(wk) : TaskStore(w)
  \/ \E w \in 1..Len(wk) : TaskCompare(w)
  \/ Join
  \/ OptTrial
  \/ OptReturn
  \/ AdvTrial
  \/ AdvReturn
  \/ BuildKDTreeEmpty

(***************************************************************************)
(* The arguments of a call.  tuple_scale is <<numerator, denominator>>.    *)
(***************************************************************************)
Scales == {<<0, 1>>, <<1, 2>>}

Ramp(n) == [k \in 1..n |-> k - 1]

SeqsOver(n, maxv) == UNION { [1..k -> 0..maxv] : k \in 1..n }

ModesOptimized ==
  { [opt |-> TRUE, cc |-> TRUE, tt |-> TRUE, abs |-> TRUE, scale |-> sc] :
      sc \in Scales }

ModesAdvanced ==
  { [opt |-> FALSE, cc |-> m[1], tt |-> m[2], abs |-> m[3], scale |-> m[4]] :
      m \in { x \in BOOLEAN \X BOOLEAN \X BOOLEAN \X Scales :
                x[2] \/ x[4][1] # 0 } }

ModesReuse ==
  ModesOptimized \cup
  { [opt |-> FALSE, cc |-> b, tt |-> b, abs |-> b, scale |-> <<1, 2>>] :
      b \in BOOLEAN }

Arguments(src, tgt, sf, tf, m) ==
  [src |-> src, tgt |-> tgt, sf |-> sf, tf |-> tf, opt |-> m.opt,
   cc |-> m.cc, tt |-> m.tt, abs |-> m.abs, scale |-> m.scale]

\* Descriptors vary, the points lie on a ramp.
FeatureLists ==
  { f \in SeqsOver(MaxPts, MaxFeat) :
      \A k \in 1..Len(f) : Len(f) + f[k] <= MaxFeatSum }

InputsByFeatures ==
  { Arguments(Ramp(Len(x[1])), Ramp(Len(x[2])), x[1], x[2], x[3]) :
      x \in FeatureLists \X FeatureLists
            \X (ModesOptimized \cup { m \in ModesAdvanced : m.abs }) }

\* Points vary (the first one at 0), the descriptor of a point is its index.
InputsByPoints ==
  { Arguments(x[1], x[2], Ramp(Len(x[1])), Ramp(Len(x[2])), x[3]) :
      x \in { y \in SeqsOver(MaxPts, MaxCoord) \X SeqsOver(MaxPts, MaxCoord)
                    \X (ModesOptimized \cup ModesAdvanced) :
                y[1][1] = 0 /\ y[2][1] = 0 } }

\* The source or the target has no point and no descriptor.
InputsEmpty ==
  { Arguments(x[1], x[2], x[1], x[2], x[3]) :
      x \in { y \in { Ramp(n) : n \in 0..MaxPtsReuse }
                    \X { Ramp(n) : n \in 0..MaxPtsReuse } \X ModesReuse :
                y[1] = <<>> \/ y[2] = <<>> } }

InputsMatch == InputsByFeatures \cup InputsByPoints \cup InputsEmpty

InputsReuse ==
  { Arguments(Ramp(Len(x[1])), Ramp(Len(x[2])), x[1], x[2], x[3]) :
      x \in SeqsOver(MaxPtsReuse, MaxFeatReuse)
            \X SeqsOver(MaxPtsReuse, MaxFeatReuse) \X ModesReuse }

InitMatcher ==
  /\ pointcloud_ = <<>>
  /\ features_ = <<>>
  /\ corres_ = <<>>
  /\ pc = "idle"
  /\ args = <<>>
  /\ fr = <<>>
  /\ wk = <<>>
  /\ ret = <<>>
  /\ obs = <<>>
  /\ calls = 0
  /\ prev = <<>>

\* A KISSMatcher, any sequence of match and estimate.
Init == InitFacade /\ InitMatcher

Spec == Init /\ [][NextFacade]_vars

\* A KISSMatcher whose match is called with matrices.
SpecEigen == Init /\ [][MatchEigen]_vars

\* A Matcher used for one call, and a second Matcher run on the same
\* arguments.
CallOnce == calls = 0 /\ \E in \in InputsMatch : Call(in)

NextMatch == CallOnce \/ Rerun \/ Steps

InitMatch == ConstructConfig /\ FacadeFields /\ InitMatcher

SpecMatch == InitMatch /\ [][NextMatch]_vars

\* A Matcher used for several calls.
CallAgain ==
  calls < MaxCalls /\ \E in \in InputsReuse \cup InputsEmpty : Call(in)

NextReuse == CallAgain \/ Steps

SpecReuse == InitMatch /\ [][NextReuse]_vars

(***************************************************************************)
(* The accessors.                                                          *)
(***************************************************************************)
getSolverTime == solver_time_

getScore ==
  [initial_pairs |-> Deref(robin_matching_).initial,
   pruned_pairs |-> Deref(robin_matching_).pruned,
   rot_inliers |-> Deref(solver_).rot,
   trans_inliers |-> Deref(solver_).trans]

(***************************************************************************)
(* C1.  An estimate whose matching yields fewer than 2 pairs does not run  *)
(* the solver and returns the invalid identity solution, whatever calls    *)
(* were made on the instance before.                                       *)
(***************************************************************************)
C1_FewPairsInvalidIdentity ==
  (last.op = "estimate" /\ ~last.crashed /\ matched_ < 2) =>
     /\ ~last.solved
     /\ last.ret = <<InvalidIdentity>>
     /\ solver_ = Ptr(NewSolver)

\* An estimate with fewer than 2 pairs, made after a call that returned a
\* valid solution.
C1_Witness ==
  /\ last.op = "estimate" /\ ~last.crashed /\ matched_ < 2
  /\ last.after_valid

(***************************************************************************)
(* Helpers of the statements about the correspondence stage.               *)
(***************************************************************************)
Returned == pc = "idle" /\ calls > 0

SetOf(s) == { s[k] : k \in 1..Len(s) }

NoPairTwice(s) == \A a, b \in 1..Len(s) : a # b => s[a] # s[b]

\* The cross-check output of this call in the caller's frame.
CrossInCallerFrame ==
  IF obs[1].swapped THEN SwapPairs(obs[1].cross) ELSE obs[1].cross

(***************************************************************************)
(* C2.  Every pair (i, j) returned by calculateCorrespondences is a source *)
(* index and a target index of the clouds of that call:                    *)
(* 0 <= i < |source| and 0 <= j < |target|, for both matchers and either   *)
(* size ordering.                                                          *)
(***************************************************************************)
C2_IndicesInCallerFrame ==
  Returned =>
    \A k \in 1..Len(ret) :
       /\ ret[k][1] \in 0..(Len(args.src) - 1)
       /\ ret[k][2] \in 0..(Len(args.tgt) - 1)

(***************************************************************************)
(* C3.  The list returned by calculateCorrespondences contains no pair     *)
(* twice, for both matchers, with or without cross check and tuple test,   *)
(* whatever triples are sampled.                                           *)
(***************************************************************************)
C3_NoPairTwice == Returned => NoPairTwice(ret)

\* A call has returned in which a correspondence given out more than once
\* (in several accepted triples, or several times in one) was dropped, and
\* the target cloud is the larger one.
C3_Witness ==
  /\ Returned /\ obs # <<>> /\ obs[1].repeated /\ obs[1].swapped
  /\ args.scale[1] # 0 /\ args.tt
  /\ Len(ret) >= 2

(***************************************************************************)
(* C4.  The cross check of optimizedMatching yields exactly the mutual     *)
(* nearest neighbours within thr_dist: the pairs (i, j) where the lookup   *)
(* of j gives i at squared distance at most thr_dist^2 and the reverse     *)
(* lookup of i gives j, also when several j share the same nearest i; the  *)
(* cross check of advancedMatching yields the same pairs, the threshold    *)
(* aside.                                                                  *)
(***************************************************************************)
MutualNearest(fiData, fjData) ==
  { c \in (0..(Len(fiData) - 1)) \X (0..(Len(fjData) - 1)) :
      /\ searchKDTree(fiData, At(fjData, c[2])) = c[1]
      /\ searchKDTree(fjData, At(fiData, c[1])) = c[2] }

WithinThreshold(fiData, fjData, c) ==
  Dist2(At(fiData, c[1]), At(fjData, c[2])) <= thr_dist_ * thr_dist_

C4_CrossCheckIsMutualNearest ==
  (calls > 0 /\ args.opt /\ obs # <<>>) =>
    LET r == Roles(pointcloud_)
        fiData == At(features_, r.fi)
        fjData == At(features_, r.fj)
    IN /\ SetOf(obs[1].cross) =
            { c \in MutualNearest(fiData, fjData) :
                WithinThreshold(fiData, fjData, c) }
       /\ SetOf(obs[1].cross) =
            { c \in SetOf(AdvancedCorres(fiData, fjData, TRUE)) :
                WithinThreshold(fiData, fjData, c) }

(***************************************************************************)
(* C5.  On the same inputs the parallel cross check of optimizedMatching   *)
(* produces the same list, pairs and order, for every interleaving of the  *)
(* workers and every partition of the index range: a second run on the     *)
(* arguments of a first one has the same cross-check output.               *)
(***************************************************************************)
C5_CrossCheckSameOnRerun ==
  (prev # <<>> /\ args.opt /\ obs # <<>>) =>
     obs[1].cross = prev[1].obs[1].cross

(***************************************************************************)
(* C6.  Two runs of the tuple filter on the same input correspondence      *)
(* list and clouds (and the same seed) return the same correspondence      *)
(* list.                                                                   *)
(***************************************************************************)
C6_TupleFilterSameOnRerun ==
  (prev # <<>> /\ pc = "idle" /\ obs[1].cross = prev[1].obs[1].cross) =>
     ret = prev[1].ret

(***************************************************************************)
(* C7.  optimizedMatching never returns more than num_max_corres           *)
(* correspondences, whatever triples are sampled.                          *)
(***************************************************************************)
C7_AtMostNumMaxCorres ==
  (Returned /\ args.opt) => Len(ret) <= num_max_corres_

(***************************************************************************)
(* C8.  With tuple_scale = 0 calculateCorrespondences returns the          *)
(* correspondences of the cross-check stage unchanged, as (source index,   *)
(* target index), for both matchers.                                       *)
(***************************************************************************)
C8_ZeroScaleReturnsCrossCheck ==
  (Returned /\ args.scale[1] = 0) => SetOf(ret) = SetOf(CrossInCallerFrame)

(***************************************************************************)
(* C9.  In the tuple filter with tuple_scale in (0, 1) a sampled triple    *)
(* (a, b, c) is accepted exactly when each of its pairs (a,b), (b,c),      *)
(* (c,a) satisfies tuple_scale * dS <= dT <= dS / tuple_scale, bounds      *)
(* inclusive; at most 100 * |corr| triples are tried and the list returned *)
(* is a subset of the input list.                                          *)
(***************************************************************************)
\* li * scale <= lj <= li / scale
InclusiveTest(li, lj, sc) ==
  /\ li[2] # 0 /\ lj[2] # 0
  /\ li[1] * sc[1] * lj[2] <= lj[1] * sc[2] * li[2]
  /\ lj[1] * sc[1] * li[2] <= li[1] * sc[2] * lj[2]

InclusiveTriple(a, b, c) ==
  /\ InclusiveTest(Li(a, b), Lj(a, b), args.scale)
  /\ InclusiveTest(Li(b, c), Lj(b, c), args.scale)
  /\ InclusiveTest(Li(c, a), Lj(c, a), args.scale)

C9_AcceptedIffInclusive ==
  /\ (pc = "opt_tuple" \/ (pc = "adv_tuple" /\ fr.tuple_on)) =>
        /\ fr.i <= TrialsPerCorr * fr.ncorr
        /\ \A a, b, c \in 0..(fr.ncorr - 1) :
              (IF pc = "opt_tuple" THEN OptAccepts(a, b, c)
                                   ELSE AdvAccepts(a, b, c))
                 <=> InclusiveTriple(a, b, c)
  /\ (Returned /\ args.scale[1] # 0 /\ args.tt) =>
        SetOf(ret) \subseteq SetOf(CrossInCallerFrame)

(***************************************************************************)
(* C11.  A call whose source or target has no keypoint and no descriptor   *)
(* short-circuits: no nearest-neighbour index is built from the empty      *)
(* descriptor list, no element 0 of an empty sequence is read, and the     *)
(* call returns the empty list without failing.                            *)
(***************************************************************************)
C11_EmptyInputShortCircuits ==
  /\ pc # "build_empty"
  /\ pc # "crashed"
  /\ (Returned /\ (args.sf = <<>> \/ args.tf = <<>>)) => ret = <<>>

(***************************************************************************)
(* C12.  In the parallel cross check the workers share read-only inputs    *)
(* only: in no state is one worker about to write i_to_j[i] or the lookup  *)
(* buffer corres_K_for_i while another worker is about to read or write    *)
(* the same location or still has to read what it wrote there, and the     *)
(* lookup result a worker stores and compares with j is the one it         *)
(* computed itself for its i.                                              *)
(***************************************************************************)
\* Worker w is about to write corres_K_for_i.
WritesBuffer(w) == wk[w].ph = "search"

\* Worker w is about to write corres_K_for_i or has yet to read what it
\* wrote there.
UsesBuffer(w) == wk[w].ph \in {"search", "store", "compare"}

\* Worker w is about to write i_to_j[i].
WritesTable(w, i) == wk[w].ph = "store" /\ TaskI(w) = i

\* Worker w is about to read or write i_to_j[i].
UsesTable(w, i) ==
  \/ WritesTable(w, i)
  \/ /\ wk[w].ph = "test" /\ wk[w].j < wk[w].hi
     /\ At(fr.dis, wk[w].j) <= thr_dist_ * thr_dist_
     /\ TaskI(w) = i

OwnLookup(w) ==
  searchKDTree(At(features_, fr.fj), At(At(features_, fr.fi), TaskI(w)))

C12_WorkersShareNoWrites ==
  pc = "cross" =>
    /\ \A w, v \in 1..Len(wk) :
          w # v =>
            /\ ~(WritesBuffer(w) /\ UsesBuffer(v))
            /\ \A i \in Idx(fr.i_to_j) :
                  ~(WritesTable(w, i) /\ UsesTable(v, i))
    /\ \A w \in 1..Len(wk) :
          wk[w].ph \in {"store", "compare"} =>
             fr.corres_K_for_i = OwnLookup(w)

(***************************************************************************)
(* C13.  The result of calculateCorrespondences depends on the arguments   *)
(* of that call only: the matcher works on the clouds and descriptors of   *)
(* this call, and what it returns is what a new Matcher returns on them    *)
(* (for advancedMatching the pairs of these descriptors, all of them       *)
(* without the tuple test; for optimizedMatching with tuple_scale = 0 the  *)
(* list a new Matcher holds), not something computed from the clouds,      *)
(* descriptors or list an earlier call left.                               *)
(***************************************************************************)
\* What advancedMatching finds before the tuple test on the descriptors of
\* the call alone, in the caller's frame.
AdvancedOnArguments ==
  LET swapped == Len(args.tgt) > Len(args.src)
      corres == IF swapped THEN AdvancedCorres(args.tf, args.sf, args.cc)
                           ELSE AdvancedCorres(args.sf, args.tf, args.cc)
  IN IF swapped THEN SwapPairs(corres) ELSE corres

C13_ResultFromArgumentsOnly ==
  (calls > 0 /\ args.sf # <<>> /\ args.tf # <<>>) =>
    /\ At(features_, 0) = args.sf
    /\ At(features_, 1) = args.tf
    /\ Len(At(pointcloud_, 0).x) = Len(args.src)
    /\ Len(At(pointcloud_, 1).x) = Len(args.tgt)
    /\ (Returned /\ ~args.opt) =>
          /\ SetOf(ret) \subseteq SetOf(AdvancedOnArguments)
          /\ ~(args.tt /\ args.scale[1] # 0) =>
                SetOf(ret) = SetOf(AdvancedOnArguments)
    /\ (Returned /\ args.opt /\ args.scale[1] = 0) => ret = <<>>

(***************************************************************************)
(* C14.  After construction by either constructor the descriptor           *)
(* extractor, the correspondence matcher and the solver exist, so that no  *)
(* call of match, estimate or getScore dereferences a component that was   *)
(* never made.                                                             *)
(***************************************************************************)
C14_ReadyAfterConstruction ==
  /\ faster_pfh_ # Null
  /\ robin_matching_ # Null
  /\ solver_ # Null
  /\ ~last.crashed

(***************************************************************************)
(* C15.  The matrix overload of match converts every column of both        *)
(* matrices and reads no column outside either matrix, so that the vector  *)
(* overload it calls gets the same points as a call of the vector overload *)
(* on the converted matrices, whatever the column counts.                  *)
(***************************************************************************)
C15_MatrixOverloadConvertsAll ==
  eig # <<>> =>
    /\ ~eig.outside
    /\ eig.src_vec = CastColumns(eig.src)
    /\ eig.tgt_vec = CastColumns(eig.tgt)

(***************************************************************************)
(* C10.  The accessors describe the most recent call only: they are zero   *)
(* before the first call, and after a call that did not run the solver     *)
(* (a match, or an estimate with fewer than 2 pairs) the solver time and   *)
(* the inlier counts are zero.                                             *)
(***************************************************************************)
C10_AccessorsOfLastCall ==
  /\ (last.op = "none" /\ solver_ # Null) =>
        /\ getSolverTime = 0 /\ times_ = ZeroTimes
        /\ getScore = [initial_pairs |-> 0, pruned_pairs |-> 0,
                       rot_inliers |-> 0, trans_inliers |-> 0]
  /\ (last.op # "none" /\ ~last.crashed /\ ~last.solved) =>
        /\ getSolverTime = 0
        /\ getScore.rot_inliers = 0
        /\ getScore.trans_inliers = 0
  /\ (last.op # "none" /\ ~last.crashed) =>
        /\ getScore.pruned_pairs = matched_

=============================================================================
